---- MODULE Spec2Model ----
(***************************************************************************)
(* Model of the workflow execution engine,                                 *)
(* backend/app/services/workflow_engine.py (class WorkflowEngine), with    *)
(* the two collaborators it calls: CrewAIService (agent materialisation    *)
(* and the agent invocation) and MonitoringService (event publication and  *)
(* the metrics store).                                                     *)
(*                                                                         *)
(* The engine is asyncio code: every coroutine runs on one event loop, and *)
(* control changes hands only at an await that suspends.  One action of    *)
(* this module is one such atomic segment of a coroutine, from one         *)
(* suspension to the next.  The suspending awaits are the calls into the   *)
(* MonitoringService (redis round trips), queue.get() on an empty queue    *)
(* and asyncio.sleep.  CrewAIService.execute_workflow_step awaits nothing: *)
(* agent.execute_task is an ordinary blocking call, so while it runs the   *)
(* event loop runs nothing else (variable loop_busy).                      *)
(***************************************************************************)
EXTENDS Integers, Sequences, FiniteSets, TLC

(***************************************************************************)
(* Bounds of the model.                                                    *)
(***************************************************************************)
\* size of the worker pool (max_concurrent_workflows; the engine's own value is 10)
PoolSize == 2
\* number of submit_workflow calls in a behaviour
MaxExec == 2
\* longest task list of a submitted workflow
MaxTasks == 2
\* number of cancel_workflow calls that find their execution, in a behaviour
MaxCancels == 1
\* number of MonitoringService calls that raise, in a behaviour
MaxSinkFailures == 1
\* the clock runs from 1 to MaxClock, in hours
MaxClock == 3
\* the limits get_workflow_history is called with are 1..MaxLimit
MaxLimit == 2
\* number of reads in a row that a behaviour tells apart
MaxReads == 2

Workers == 1..PoolSize

(***************************************************************************)
(* ExecutionStatus (models/database.py).                                   *)
(***************************************************************************)
PENDING == "pending"
RUNNING == "running"
COMPLETED == "completed"
FAILED == "failed"
CANCELLED == "cancelled"
ExecutionStatus == {PENDING, RUNNING, COMPLETED, FAILED, CANCELLED}

\* Python's None, for the string-valued fields of a record
None == "None"

(***************************************************************************)
(* Inputs: what callers submit and what the collaborators answer.          *)
(***************************************************************************)
\* the crew descriptors submitted: crew_data["agents"], a list of templates.
\* A template is [role, valid]: create_agent raises for a template that is
\* not valid, and create_agents_from_templates skips it.
AgentTemplate(role, valid) == [role |-> role, valid |-> valid]
\* task names, unique within a workflow: the k-th task is TaskNames[k]
TaskNames == << "t1", "t2", "t3", "t4" >>
\* TaskDefinition (schemas/workflow.py): name and optional agent_id
TaskDefinition(name, agent_id) == [name |-> name, agent_id |-> agent_id]
\* the task lists submitted: n tasks, all with the same agent_id
TaskList(n, agent_id) == [k \in 1..n |-> TaskDefinition(TaskNames[k], agent_id)]
\* f"task_{i}_result" for the 0-based index i
TaskResultKey(i) == << "task_0_result", "task_1_result", "task_2_result", "task_3_result" >>[i + 1]
\* the input map callers submit (inputs or {}): key -> value
EmptyMap == [k \in {} |-> ""]

\* dict assignment d[key] = value
DictSet(d, key, value) == [k \in DOMAIN d \cup {key} |-> IF k = key THEN value ELSE d[k]]

VARIABLES
  engine_started,     \* start_engine has run
  execution_queue,    \* asyncio.Queue: sequence of execution ids, head first
  active_workflows,   \* keys of the dict active_workflows
  workflow,           \* execution id -> the workflow_data dict (the ExecutionRecord)
  pc,                 \* worker -> where its coroutine is suspended
  cur,                \* worker -> execution id it dequeued (0: none)
  idx,                \* worker -> loop variable i of the task loop (0-based)
  results,            \* worker -> the local list results
  agents,             \* worker -> the local list agents (roles)
  loop_busy,          \* worker whose blocking agent call holds the event loop (0: none)
  hung,               \* that blocking call never returns
  calls,              \* API coroutines suspended in their event publication
  returned,           \* what the API calls that are over returned or raised
  query,              \* the read made last, if no step of the engine came after it
  events,             \* execution id -> events the Event Sink recorded for it
  metrics,            \* execution id -> metrics maps the metrics store recorded
  task_log,           \* execution id -> the calls and returns of _execute_task, in order
  now,                \* the clock datetime.utcnow() reads
  submits_left,       \* submit_workflow calls the callers still make
  cancels_left,       \* cancel_workflow calls the callers still make
  sink_failures_left  \* MonitoringService calls that still raise

vars == << engine_started, execution_queue, active_workflows, workflow, pc, cur, idx,
           results, agents, loop_busy, hung, calls, returned, query, events, metrics,
           task_log, now, submits_left,
           cancels_left, sink_failures_left >>

workerVars == << pc, cur, idx, results, agents >>
\* everything but query: what a read leaves alone
engineVars == << engine_started, execution_queue, active_workflows, workflow, pc, cur, idx,
                 results, agents, loop_busy, hung, calls, returned, events, metrics,
                 task_log, now, submits_left, cancels_left, sink_failures_left >>
sinkVars == << events, metrics, sink_failures_left >>
budgetVars == << submits_left, cancels_left >>

(***************************************************************************)
(* The records.                                                            *)
(***************************************************************************)
\* a faulty submit_workflow: the record is born RUNNING, before any worker
\* has dequeued it (C3_BoundedConcurrency depends on the PENDING birth)
WorkflowDataRunning(execution_id, workflow_id, crew_agents, tasks, inputs) ==
  [ execution_id   |-> execution_id,
    workflow_id    |-> workflow_id,
    crew_agents    |-> crew_agents,
    tasks          |-> tasks,
    inputs         |-> inputs,
    status         |-> RUNNING,
    created_at     |-> now,
    submitted_at   |-> now,
    progress       |-> << 0, 1 >>,
    current_task   |-> None,
    current_agent  |-> None,
    started_at     |-> now,
    completed_at   |-> 0,
    cancelled_at   |-> 0,
    error          |-> None,
    results        |-> << >>,
    execution_time |-> 0,
    tokens_used    |-> 0 ]

\* workflow_data as submit_workflow builds it.  A key the dict does not hold
\* yet is a field with the value its readers default to (.get(key, default)):
\* progress 0.0 (as the fraction <<0, 1>>), None, 0 for an unset timestamp
\* (the clock starts at 1), an empty result list.
WorkflowData(execution_id, workflow_id, crew_agents, tasks, inputs) ==
  [ execution_id   |-> execution_id,
    workflow_id    |-> workflow_id,
    crew_agents    |-> crew_agents,
    tasks          |-> tasks,
    inputs         |-> inputs,
    status         |-> PENDING,
    created_at     |-> now,
    submitted_at   |-> now,
    progress       |-> << 0, 1 >>,
    current_task   |-> None,
    current_agent  |-> None,
    started_at     |-> 0,
    completed_at   |-> 0,
    cancelled_at   |-> 0,
    error          |-> None,
    results        |-> << >>,
    execution_time |-> 0,
    tokens_used    |-> 0 ]

\* The result dicts.  A key a dict does not hold is a field with the value
\* its readers default to: None, "" for the text, 0 for execution_time and
\* for tokens_used (which no result dict holds).
\* the dict execute_workflow_step returns when agent.execute_task returned
StepCompleted(agent, task_name, text, execution_time) ==
  [ status |-> COMPLETED, result |-> text, error |-> None, agent |-> agent,
    task |-> task_name, task_name |-> None, execution_time |-> execution_time,
    tokens_used |-> 0 ]
\* the dict execute_workflow_step returns when agent.execute_task raised
StepFailed(agent, task_name, error) ==
  [ status |-> FAILED, result |-> "", error |-> error, agent |-> agent,
    task |-> task_name, task_name |-> None, execution_time |-> 0, tokens_used |-> 0 ]
\* the dict _execute_task returns from its own except clause
TaskFailed(task_name, error) ==
  [ status |-> FAILED, result |-> "", error |-> error, agent |-> None,
    task |-> None, task_name |-> task_name, execution_time |-> 0, tokens_used |-> 0 ]

\* RealTimeEvent as log_workflow_event builds it, reduced to what the engine
\* puts in: the event type, the task name, the status and the progress.
Event(event_type, task_name, status, progress) ==
  [ event_type |-> event_type, task_name |-> task_name, status |-> status,
    progress |-> progress ]

\* entries of returned: the API call op for execution_id is over, and it
\* returned the execution id ("execution_id"), True or False, or it let the
\* exception of its event publication through ("raised")
Returned(op, execution_id, outcome) ==
  [ op |-> op, execution_id |-> execution_id, outcome |-> outcome ]

\* the value of query when no read was made since the last step of the engine
NoQuery == [ op |-> "none" ]

\* entries of task_log: _execute_task is called for a task, and returns
TaskCall(task_name) ==
  [ op |-> "call", task |-> task_name, status |-> None, error |-> None ]
TaskReturn(result) ==
  [ op |-> "return",
    task |-> IF result.task # None THEN result.task ELSE result.task_name,
    status |-> result.status, error |-> result.error ]

(***************************************************************************)
(* Pure helpers.                                                           *)
(***************************************************************************)
RECURSIVE SumTimes(_)
\* sum(r.get("execution_time", 0) for r in results)
SumTimes(rs) == IF rs = << >> THEN 0 ELSE rs[1].execution_time + SumTimes(Tail(rs))

RECURSIVE SumTokens(_)
\* sum(r.get("tokens_used", 0) for r in results)
SumTokens(rs) == IF rs = << >> THEN 0 ELSE rs[1].tokens_used + SumTokens(Tail(rs))

\* progress fractions <<numerator, denominator>>, compared as numbers
ProgressLE(p, q) == p[1] * q[2] <= q[1] * p[2]
ProgressIsOne(p) == p[1] = p[2]

RECURSIVE CreatedRoles(_)
\* create_agents_from_templates: the agents of the templates create_agent
\* accepts, in order (a failing template is logged and skipped)
CreatedRoles(templates) ==
  IF templates = << >> THEN << >>
  ELSE (IF templates[1].valid THEN << templates[1].role >> ELSE << >>)
       \o CreatedRoles(Tail(templates))

\* a faulty selection: the first agent whatever the task asks for
\* (C29_AgentSelection depends on the search by agent_id)
SelectAgentFirst(task_def, ags) == IF ags # << >> THEN ags[1] ELSE None

\* _execute_task's agent selection: the agent whose role equals agent_id,
\* else the first agent, else None
SelectAgent(task_def, ags) ==
  LET match == { k \in 1..Len(ags) : ags[k] = task_def.agent_id }
      byId == IF task_def.agent_id # None /\ match # {}
              THEN ags[CHOOSE k \in match : \A j \in match : k <= j]
              ELSE None
  IN  IF byId # None THEN byId
      ELSE IF ags # << >> THEN ags[1]
      ELSE None

\* the str(e) of the ValueError _execute_task raises for itself
NoAgentError == "No agent available for task"

\* a faulty except clause: the exception of the Task constructor leaves
\* _execute_task (C28_ExecutorOnlyReports depends on the dict returned there)
ExecuteTaskRaises(task_def, ags, out) ==
  LET agent == SelectAgent(task_def, ags)
  IN  IF agent = None THEN TaskFailed(task_def.name, NoAgentError)
      ELSE IF out.task_raised
      THEN [ TaskFailed(task_def.name, out.error) EXCEPT !.status = "raised" ]
      ELSE IF out.raised THEN StepFailed(agent, task_def.name, out.error)
      ELSE StepCompleted(agent, task_def.name, out.text, out.ms)

\* _execute_task: the dict it returns for the task, the agents and the
\* outcome of the Task constructor and of agent.execute_task
ExecuteTask(task_def, ags, out) ==
  LET agent == SelectAgent(task_def, ags)
  IN  IF agent = None THEN TaskFailed(task_def.name, NoAgentError)
      ELSE IF out.task_raised THEN TaskFailed(task_def.name, out.error)
      ELSE IF out.raised THEN StepFailed(agent, task_def.name, out.error)
      ELSE StepCompleted(agent, task_def.name, out.text, out.ms)

(***************************************************************************)
(* What the collaborators answer.                                          *)
(***************************************************************************)
\* the exception messages, str(e)
NoAgentsError == "No agents created for workflow"
SinkError == "redis connection error"
\* agent.execute_task: returns a text after some milliseconds, or raises
InvokerOutcomes ==
  { [ task_raised |-> FALSE, raised |-> FALSE, text |-> "draft", error |-> None, ms |-> 3 ],
    [ task_raised |-> FALSE, raised |-> TRUE, text |-> "", error |-> "timeout", ms |-> 0 ] }
\* the same, and the two outcomes left: the agent returns an empty text, and
\* the constructor of the crewai Task raises before the agent is called
ExecutorOutcomes ==
  InvokerOutcomes \cup
  { [ task_raised |-> FALSE, raised |-> FALSE, text |-> "", error |-> None, ms |-> 2 ],
    [ task_raised |-> TRUE, raised |-> FALSE, text |-> "", error |-> "validation error",
      ms |-> 0 ] }
\* a MonitoringService call returns (TRUE) or raises (FALSE)
SinkOutcomes == {TRUE} \cup (IF sink_failures_left > 0 THEN {FALSE} ELSE {})
\* the submissions callers make
Submission(workflow_id, crew_agents, tasks, inputs) ==
  [ workflow_id |-> workflow_id, crew_agents |-> crew_agents, tasks |-> tasks,
    inputs |-> inputs ]
\* a crew no agent can be created from, and a crew of one agent with task
\* lists of every length
Submissions ==
  { Submission("wfA", << AgentTemplate("researcher", FALSE) >>, TaskList(1, None), EmptyMap) }
  \cup { Submission("wfA", << AgentTemplate("researcher", TRUE) >>, TaskList(n, None), EmptyMap) :
           n \in 0..MaxTasks }

(***************************************************************************)
(* The engine as __init__ leaves it, no worker started.                     *)
(***************************************************************************)
InitEngine ==
  /\ engine_started = FALSE
  /\ execution_queue = << >>
  /\ active_workflows = {}
  /\ workflow = [e \in {} |-> 0]
  /\ pc = [w \in Workers |-> "off"]
  /\ cur = [w \in Workers |-> 0]
  /\ idx = [w \in Workers |-> 0]
  /\ results = [w \in Workers |-> << >>]
  /\ agents = [w \in Workers |-> << >>]
  /\ loop_busy = 0
  /\ hung = FALSE
  /\ calls = {}
  /\ returned = {}
  /\ query = NoQuery
  /\ events = [e \in {} |-> << >>]
  /\ metrics = [e \in {} |-> << >>]
  /\ task_log = [e \in {} |-> << >>]
  /\ now = 1

\* the event loop is free to run a coroutine
LoopFree == loop_busy = 0

(***************************************************************************)
(* MonitoringService.                                                      *)
(***************************************************************************)
\* log_workflow_event: the sink holds the event when the call returns, and
\* does not when it raises
log_workflow_event(e, ev, ok) ==
  /\ events' = [events EXCEPT ![e] = IF ok THEN Append(@, ev) ELSE @]
  /\ sink_failures_left' = IF ok THEN sink_failures_left ELSE sink_failures_left - 1

\* update_workflow_metrics
update_workflow_metrics(e, m, ok) ==
  /\ metrics' = [metrics EXCEPT ![e] = IF ok THEN Append(@, m) ELSE @]
  /\ sink_failures_left' = IF ok THEN sink_failures_left ELSE sink_failures_left - 1

(***************************************************************************)
(* The Scheduler's API.                                                    *)
(***************************************************************************)
\* a faulty start that creates no worker task
\* (C35_Liveness depends on the workers start_engine creates)
start_engine_no_workers ==
  /\ LoopFree
  /\ ~engine_started
  /\ engine_started' = TRUE
  /\ UNCHANGED << execution_queue, active_workflows, workflow, workerVars,
                  loop_busy, hung, calls, returned, sinkVars, task_log, now, budgetVars >>
  /\ query' = NoQuery

\* start_engine: one _workflow_worker per pool slot, each at its queue.get()
start_engine ==
  /\ LoopFree
  /\ ~engine_started
  /\ engine_started' = TRUE
  /\ pc' = [w \in Workers |-> "get"]
  /\ UNCHANGED << execution_queue, active_workflows, workflow, cur, idx, results, agents,
                  loop_busy, hung, calls, returned, sinkVars, task_log, now, budgetVars >>
  /\ query' = NoQuery

\* submit_workflow up to its await of log_workflow_event: the put on the
\* unbounded queue does not suspend.  uuid4 is a fresh id.
submit_workflow(workflow_id, crew_agents, tasks, inputs) ==
  LET execution_id == Cardinality(DOMAIN workflow) + 1 IN
  /\ LoopFree
  /\ submits_left > 0
  /\ submits_left' = submits_left - 1
  /\ workflow' = [e \in DOMAIN workflow \cup {execution_id} |->
                    IF e = execution_id
                    THEN WorkflowData(execution_id, workflow_id, crew_agents, tasks, inputs)
                    ELSE workflow[e]]
  /\ execution_queue' = Append(execution_queue, execution_id)
  /\ active_workflows' = active_workflows \cup {execution_id}
  /\ events' = [e \in DOMAIN events \cup {execution_id} |->
                  IF e = execution_id THEN << >> ELSE events[e]]
  /\ metrics' = [e \in DOMAIN metrics \cup {execution_id} |->
                   IF e = execution_id THEN << >> ELSE metrics[e]]
  /\ task_log' = [e \in DOMAIN task_log \cup {execution_id} |->
                    IF e = execution_id THEN << >> ELSE task_log[e]]
  /\ calls' = calls \cup {[op |-> "submit", execution_id |-> execution_id]}
  /\ UNCHANGED << engine_started, workerVars, loop_busy, hung, returned, now, cancels_left,
                  sink_failures_left >>
  /\ query' = NoQuery

\* submit_workflow from the return of log_workflow_event: returns the
\* execution id, or the publication's exception reaches the caller
submit_workflow_logged(c, ok) ==
  /\ LoopFree
  /\ c \in calls /\ c.op = "submit"
  /\ log_workflow_event(c.execution_id, Event("workflow_submitted", None, None, << 0, 1 >>), ok)
  /\ calls' = calls \ {c}
  /\ returned' = returned \cup
       {Returned("submit", c.execution_id, IF ok THEN "execution_id" ELSE "raised")}
  /\ UNCHANGED << engine_started, execution_queue, active_workflows, workflow, workerVars,
                  loop_busy, hung, metrics, task_log, now, budgetVars >>
  /\ query' = NoQuery

\* a faulty cancel_workflow served off the event loop: it runs while a
\* blocking agent call holds the loop (C16_NonPreemptive depends on the
\* cancel being a coroutine of the loop)
cancel_workflow_off_loop(execution_id) ==
  /\ [op |-> "cancel", execution_id |-> execution_id] \notin calls
  /\ IF execution_id \in active_workflows
     THEN /\ cancels_left > 0
          /\ cancels_left' = cancels_left - 1
          /\ workflow' = [workflow EXCEPT ![execution_id].status = CANCELLED,
                                          ![execution_id].cancelled_at = now]
          /\ calls' = calls \cup {[op |-> "cancel", execution_id |-> execution_id]}
          /\ UNCHANGED returned
     ELSE /\ returned' = returned \cup {Returned("cancel", execution_id, "False")}
          /\ UNCHANGED << workflow, calls, cancels_left >>
  /\ UNCHANGED << engine_started, execution_queue, active_workflows, workerVars,
                  loop_busy, hung, sinkVars, task_log, now, submits_left >>
  /\ query' = NoQuery

\* cancel_workflow up to its await of log_workflow_event, or to its return
\* of False for an id that is not tracked.  A caller does not cancel an id
\* again while its cancel is still publishing.
cancel_workflow(execution_id) ==
  /\ LoopFree
  /\ [op |-> "cancel", execution_id |-> execution_id] \notin calls
  /\ IF execution_id \in active_workflows
     THEN /\ cancels_left > 0
          /\ cancels_left' = cancels_left - 1
          /\ workflow' = [workflow EXCEPT ![execution_id].status = CANCELLED,
                                          ![execution_id].cancelled_at = now]
          /\ calls' = calls \cup {[op |-> "cancel", execution_id |-> execution_id]}
          /\ UNCHANGED returned
     ELSE /\ returned' = returned \cup {Returned("cancel", execution_id, "False")}
          /\ UNCHANGED << workflow, calls, cancels_left >>
  /\ UNCHANGED << engine_started, execution_queue, active_workflows, workerVars,
                  loop_busy, hung, sinkVars, task_log, now, submits_left >>
  /\ query' = NoQuery

\* cancel_workflow from the return of log_workflow_event
cancel_workflow_logged(c, ok) ==
  /\ LoopFree
  /\ c \in calls /\ c.op = "cancel"
  /\ log_workflow_event(c.execution_id, Event("workflow_cancelled", None, None, << 0, 1 >>), ok)
  /\ calls' = calls \ {c}
  /\ returned' = returned \cup
       {Returned("cancel", c.execution_id, IF ok THEN "True" ELSE "raised")}
  /\ UNCHANGED << engine_started, execution_queue, active_workflows, workflow, workerVars,
                  loop_busy, hung, metrics, task_log, now, budgetVars >>
  /\ query' = NoQuery

(***************************************************************************)
(* The reads of the API and the reaper.                                    *)
(***************************************************************************)
RECURSIVE Items(_)
\* active_workflows.items(): the tracked ids in the order they were inserted,
\* which is the order the ids were issued in (a del keeps the order)
Items(S) ==
  IF S = {} THEN << >>
  ELSE LET first == CHOOSE e \in S : \A x \in S : e <= x
       IN  << first >> \o Items(S \ {first})

\* the ids of items() whose workflow["workflow_id"] == workflow_id
Matching(workflow_id) ==
  LET match(e) == workflow[e].workflow_id = workflow_id
  IN  SelectSeq(Items(active_workflows), match)

\* WorkflowStatus as get_workflow_status fills it (name and
\* estimated_completion, which no code of the engine writes, left out)
WorkflowStatus(r) ==
  [ found |-> TRUE, id |-> r.workflow_id, status |-> r.status, progress |-> r.progress,
    current_task |-> r.current_task, current_agent |-> r.current_agent,
    started_at |-> r.started_at, tokens_used |-> r.tokens_used,
    execution_time |-> r.execution_time ]

\* get_workflow_status returns None
NotFound == [ found |-> FALSE ]

\* get_workflow_status: the first item of the scan that matches
get_workflow_status(workflow_id) ==
  IF Matching(workflow_id) = << >> THEN NotFound
  ELSE WorkflowStatus(workflow[Matching(workflow_id)[1]])

\* the dict get_workflow_history appends for an execution
HistoryEntry(e) ==
  [ execution_id |-> e, status |-> workflow[e].status,
    started_at |-> workflow[e].started_at, completed_at |-> workflow[e].completed_at,
    execution_time |-> workflow[e].execution_time, tokens_used |-> workflow[e].tokens_used ]

\* a faulty key: the history sorted by the time of completion
\* (C23_HistoryMostRecentFirst depends on the key started_at)
SortKeyCompleted(x) == x.completed_at

\* the sort key: x.get("started_at") or datetime.min (0 is the unset timestamp)
SortKey(x) == x.started_at

RECURSIVE InsertDesc(_, _)
\* x put into the descending list h behind every entry whose key is not smaller
InsertDesc(h, x) ==
  IF h = << >> THEN << x >>
  ELSE IF SortKey(h[1]) >= SortKey(x) THEN << h[1] >> \o InsertDesc(Tail(h), x)
  ELSE << x >> \o h

RECURSIVE SortDesc(_)
\* list.sort(key=..., reverse=True): descending and stable (entries of equal
\* keys keep the order they had)
SortDesc(h) ==
  IF h = << >> THEN << >>
  ELSE InsertDesc(SortDesc(SubSeq(h, 1, Len(h) - 1)), h[Len(h)])

\* the slice h[:limit]
SliceTo(h, limit) ==
  LET n == IF limit >= 0 THEN limit ELSE Len(h) + limit
      m == IF n < 0 THEN 0 ELSE IF n > Len(h) THEN Len(h) ELSE n
  IN  SubSeq(h, 1, m)

\* get_workflow_history
get_workflow_history(workflow_id, limit) ==
  LET ids == Matching(workflow_id)
      history == [k \in 1..Len(ids) |-> HistoryEntry(ids[k])]
  IN  SliceTo(SortDesc(history), limit)

\* a caller awaits get_workflow_status (it has no await of its own)
get_workflow_status_call(workflow_id) ==
  /\ LoopFree
  /\ query' = [ op |-> "status", workflow_id |-> workflow_id,
                result |-> get_workflow_status(workflow_id) ]
  /\ UNCHANGED engineVars

\* a faulty read: the executions it lists stop being tracked
\* (C24_HistoryPureRead depends on a read that writes nothing)
get_workflow_history_drains(workflow_id, limit) ==
  LET again == /\ query.op = "history"
               /\ query.workflow_id = workflow_id /\ query.limit = limit
      n == IF again THEN query.n + 1 ELSE 1
      h == get_workflow_history(workflow_id, limit)
  IN  /\ LoopFree
      /\ n <= MaxReads
      /\ query' = [ op |-> "history", workflow_id |-> workflow_id, limit |-> limit,
                    n |-> n, result |-> h ]
      /\ active_workflows' = active_workflows \ { h[k].execution_id : k \in 1..Len(h) }
      /\ UNCHANGED << engine_started, execution_queue, workflow, workerVars, loop_busy,
                      hung, calls, returned, sinkVars, task_log, now, budgetVars >>

\* a caller awaits get_workflow_history; n counts the calls made in a row
\* with the same arguments
get_workflow_history_call(workflow_id, limit) ==
  LET again == /\ query.op = "history"
               /\ query.workflow_id = workflow_id /\ query.limit = limit
      n == IF again THEN query.n + 1 ELSE 1
  IN  /\ LoopFree
      /\ n <= MaxReads
      /\ query' = [ op |-> "history", workflow_id |-> workflow_id, limit |-> limit,
                    n |-> n, result |-> get_workflow_history(workflow_id, limit) ]
      /\ UNCHANGED engineVars

\* the retention of cleanup_completed_workflows, 3600 s, in hours
Retention == 1

\* the ids cleanup_completed_workflows collects
Expired ==
  { e \in active_workflows :
      /\ workflow[e].status \in {COMPLETED, FAILED, CANCELLED}
      /\ workflow[e].completed_at # 0
      /\ now - workflow[e].completed_at > Retention }

\* cleanup_completed_workflows: it has no await, and it dels the ids it
\* collected; the dicts stay with whoever holds them
cleanup_completed_workflows ==
  /\ LoopFree
  /\ Expired # {}
  /\ active_workflows' = active_workflows \ Expired
  /\ query' = NoQuery
  /\ UNCHANGED << engine_started, execution_queue, workflow, workerVars, loop_busy, hung,
                  calls, returned, sinkVars, task_log, now, budgetVars >>

\* an hour passes
Tick ==
  /\ now < MaxClock
  /\ now' = now + 1
  /\ UNCHANGED << engine_started, execution_queue, active_workflows, workflow, workerVars,
                  loop_busy, hung, calls, returned, query, sinkVars, task_log, budgetVars >>

(***************************************************************************)
(* The Workflow Runner, _execute_workflow, one action per atomic segment.  *)
(***************************************************************************)
\* a faulty write: the record is written to every execution of the same
\* workflow definition (C10_Isolation depends on the write to one dict)
SetWorkflowShared(e, r) ==
  [ x \in DOMAIN workflow |->
      IF workflow[x].workflow_id = workflow[e].workflow_id THEN r ELSE workflow[x] ]

\* workflow_data[...] = ...: the worker writes the dict it dequeued
SetWorkflow(e, r) == [workflow EXCEPT ![e] = r]

\* a faulty except clause that also resets the progress
\* (C6_ProgressMonotone depends on the except clause leaving it alone)
except_handler_resets(r, message) ==
  [r EXCEPT !.status = FAILED, !.error = message, !.completed_at = now,
            !.progress = << 0, 1 >>]

\* a faulty except clause that does not stamp completed_at
\* (C37_Timestamps depends on the stamp of the except clause)
except_handler_unstamped(r, message) ==
  [r EXCEPT !.status = FAILED, !.error = message]

\* the except clause of _execute_workflow up to its log_workflow_event
except_handler(r, message) ==
  [r EXCEPT !.status = FAILED, !.error = message, !.completed_at = now]

\* a faulty loop that walks the task list from its end
\* (C2_TaskOrdering depends on the order of enumerate)
TaskAtReversed(r, i) == r.tasks[Len(r.tasks) - i]

\* enumerate(tasks): the task_def of the 0-based index i
TaskAt(r, i) == r.tasks[i + 1]

\* the head of the task loop for index i: progress and current_task
loop_head(r, i) ==
  [r EXCEPT !.progress = << i + 1, Len(r.tasks) >>,
            !.current_task = TaskAt(r, i).name]

\* after the loop: the final status, completed_at and the totals
final_status(r, res) ==
  LET r1 == IF r.status # FAILED
            THEN [r EXCEPT !.status = COMPLETED, !.progress = << 1, 1 >>, !.results = res]
            ELSE r
  IN  [r1 EXCEPT !.completed_at = now,
                 !.execution_time = SumTimes(res),
                 !.tokens_used = SumTokens(res)]

\* a faulty failure check that leaves the record alone, so that the code
\* after the loop completes the execution (C19_CompletedHasAllResults
\* depends on the FAILED status set at the break)
task_failed_ignored(r, result) == r

\* the check for task failure after task_completed was logged
task_failed(r, result) ==
  [r EXCEPT !.status = FAILED, !.error = result.error]

\* a faulty update: the result is stored under the key of the 1-based index
\* (C26_NonEmptyResultPropagated depends on the key of the 0-based index)
update_inputs_one_based(r, i, result) ==
  IF result.result # ""
  THEN [r EXCEPT !.inputs = DictSet(@, TaskResultKey(i + 1), result.result)]
  ELSE r

\* the update of the inputs for the next task
update_inputs(r, i, result) ==
  IF result.result # ""
  THEN [r EXCEPT !.inputs = DictSet(@, TaskResultKey(i), result.result)]
  ELSE r

\* enumerate(tasks): the index after i
NextIndex(i) == i + 1

\* an exception reaches the except clause of _execute_workflow
Raise(w, message) ==
  /\ workflow' = SetWorkflow(cur[w], except_handler(workflow[cur[w]], message))
  /\ pc' = [pc EXCEPT ![w] = "log_failed"]
  /\ UNCHANGED << cur, idx, results, agents >>

\* the task loop arrives at index i with the record r and the results res:
\* the next iteration up to its log_workflow_event, or the code after the loop
Iterate(w, r, i, res) ==
  IF i < Len(r.tasks)
  THEN /\ workflow' = SetWorkflow(cur[w], loop_head(r, i))
       /\ pc' = [pc EXCEPT ![w] = "log_task_started"]
       /\ idx' = [idx EXCEPT ![w] = i]
  ELSE /\ workflow' = SetWorkflow(cur[w], final_status(r, res))
       /\ pc' = [pc EXCEPT ![w] = "log_completed"]
       /\ UNCHANGED idx

\* a faulty queue.get() that returns the head and leaves it in the queue
\* (C21_ExclusiveOwnership depends on get() removing the item)
DequeueKeeps(w) ==
  /\ LoopFree
  /\ pc[w] = "get"
  /\ execution_queue # << >>
  /\ LET e == Head(execution_queue) IN
       /\ cur' = [cur EXCEPT ![w] = e]
       /\ workflow' = SetWorkflow(e, [workflow[e] EXCEPT !.status = RUNNING,
                                                         !.started_at = now])
  /\ pc' = [pc EXCEPT ![w] = "log_started"]
  /\ UNCHANGED << engine_started, execution_queue, active_workflows, idx, results, agents,
                  loop_busy, hung, calls, returned, sinkVars, task_log, now, budgetVars >>
  /\ query' = NoQuery

\* a faulty queue.get() that returns the item put last (a LifoQueue)
\* (C11_GlobalFifoStart depends on the FIFO order of asyncio.Queue)
DequeueLast(w) ==
  /\ LoopFree
  /\ pc[w] = "get"
  /\ execution_queue # << >>
  /\ LET e == execution_queue[Len(execution_queue)] IN
       /\ execution_queue' = SubSeq(execution_queue, 1, Len(execution_queue) - 1)
       /\ cur' = [cur EXCEPT ![w] = e]
       /\ workflow' = SetWorkflow(e, [workflow[e] EXCEPT !.status = RUNNING,
                                                         !.started_at = now])
  /\ pc' = [pc EXCEPT ![w] = "log_started"]
  /\ UNCHANGED << engine_started, active_workflows, idx, results, agents, loop_busy, hung,
                  calls, returned, sinkVars, task_log, now, budgetVars >>
  /\ query' = NoQuery

\* _workflow_worker's queue.get() returns, and _execute_workflow runs up to
\* its first await: status RUNNING, started_at
Dequeue(w) ==
  /\ LoopFree
  /\ pc[w] = "get"
  /\ execution_queue # << >>
  /\ LET e == Head(execution_queue) IN
       /\ execution_queue' = Tail(execution_queue)
       /\ cur' = [cur EXCEPT ![w] = e]
       /\ workflow' = SetWorkflow(e, [workflow[e] EXCEPT !.status = RUNNING,
                                                         !.started_at = now])
  /\ pc' = [pc EXCEPT ![w] = "log_started"]
  /\ UNCHANGED << engine_started, active_workflows, idx, results, agents, loop_busy, hung,
                  calls, returned, sinkVars, task_log, now, budgetVars >>
  /\ query' = NoQuery

\* workflow_started is logged; then the agents are created and the loop is
\* entered (or there are no agents, or no tasks)
LogStarted(w, ok) ==
  /\ LoopFree
  /\ pc[w] = "log_started"
  /\ log_workflow_event(cur[w], Event("workflow_started", None, None, << 0, 1 >>), ok)
  /\ IF ~ok THEN Raise(w, SinkError)
     ELSE LET ags == CreatedRoles(workflow[cur[w]].crew_agents) IN
          IF ags = << >> THEN Raise(w, NoAgentsError)
          ELSE /\ agents' = [agents EXCEPT ![w] = ags]
               /\ results' = [results EXCEPT ![w] = << >>]
               /\ Iterate(w, workflow[cur[w]], 0, << >>)
               /\ UNCHANGED cur
  /\ UNCHANGED << engine_started, execution_queue, active_workflows, loop_busy, hung,
                  calls, returned, metrics, task_log, now, budgetVars >>
  /\ query' = NoQuery

\* task_started is logged; then _execute_task selects the agent, builds the
\* Task and calls the agent, which holds the event loop
LogTaskStarted(w, ok) ==
  /\ LoopFree
  /\ pc[w] = "log_task_started"
  /\ LET r == workflow[cur[w]] IN
       log_workflow_event(cur[w],
         Event("task_started", TaskAt(r, idx[w]).name, None, r.progress), ok)
  /\ IF ~ok THEN Raise(w, SinkError) /\ UNCHANGED << loop_busy, task_log >>
     ELSE /\ pc' = [pc EXCEPT ![w] = "invoke"]
          /\ loop_busy' = w
          /\ task_log' = [task_log EXCEPT ![cur[w]] =
               Append(@, TaskCall(TaskAt(workflow[cur[w]], idx[w]).name))]
          /\ UNCHANGED << workflow, cur, idx, results, agents >>
  /\ UNCHANGED << engine_started, execution_queue, active_workflows, hung,
                  calls, returned, metrics, now, budgetVars >>
  /\ query' = NoQuery

\* _execute_task returns its result dict (the agent call returned or raised,
\* or building the Task raised); the result is appended and current_agent set
TaskReturns(w, result) ==
  /\ pc[w] = "invoke" /\ loop_busy = w /\ ~hung
  /\ results' = [results EXCEPT ![w] = Append(@, result)]
  /\ workflow' = SetWorkflow(cur[w],
       IF result.agent # None
       THEN [workflow[cur[w]] EXCEPT !.current_agent = result.agent]
       ELSE workflow[cur[w]])
  /\ pc' = [pc EXCEPT ![w] = "log_task_completed"]
  /\ loop_busy' = 0
  /\ task_log' = [task_log EXCEPT ![cur[w]] = Append(@, TaskReturn(result))]
  /\ UNCHANGED << engine_started, execution_queue, active_workflows, cur, idx, agents, hung,
                  calls, returned, sinkVars, now, budgetVars >>
  /\ query' = NoQuery

\* the runner awaits _execute_task for the task of its iteration
execute_task(w, out) ==
  /\ pc[w] = "invoke"
  /\ TaskReturns(w, ExecuteTask(TaskAt(workflow[cur[w]], idx[w]), agents[w], out))

\* agent.execute_task never returns: the event loop stays held
Hang(w) ==
  /\ pc[w] = "invoke" /\ loop_busy = w /\ ~hung
  /\ hung' = TRUE
  /\ UNCHANGED << engine_started, execution_queue, active_workflows, workflow, workerVars,
                  loop_busy, calls, returned, sinkVars, task_log, now, budgetVars >>
  /\ query' = NoQuery

\* task_completed is logged; then the failure check, the inputs update and
\* the next iteration or the code after the loop
LogTaskCompleted(w, ok) ==
  /\ LoopFree
  /\ pc[w] = "log_task_completed"
  /\ LET r == workflow[cur[w]]
         result == results[w][Len(results[w])]
     IN  /\ log_workflow_event(cur[w],
               Event("task_completed", TaskAt(r, idx[w]).name, result.status, << 0, 1 >>), ok)
         /\ IF ~ok THEN Raise(w, SinkError)
            ELSE IF result.status = FAILED
            THEN /\ workflow' = SetWorkflow(cur[w], final_status(task_failed(r, result), results[w]))
                 /\ pc' = [pc EXCEPT ![w] = "log_completed"]
                 /\ UNCHANGED << cur, idx, results, agents >>
            ELSE /\ Iterate(w, update_inputs(r, idx[w], result), NextIndex(idx[w]), results[w])
                 /\ UNCHANGED << cur, results, agents >>
  /\ UNCHANGED << engine_started, execution_queue, active_workflows, loop_busy, hung,
                  calls, returned, metrics, task_log, now, budgetVars >>
  /\ query' = NoQuery

\* workflow_completed is logged; update_workflow_metrics is awaited next
LogCompleted(w, ok) ==
  /\ LoopFree
  /\ pc[w] = "log_completed"
  /\ log_workflow_event(cur[w],
       Event("workflow_completed", None, workflow[cur[w]].status, << 0, 1 >>), ok)
  /\ IF ~ok THEN Raise(w, SinkError)
     ELSE /\ pc' = [pc EXCEPT ![w] = "update_metrics"]
          /\ UNCHANGED << workflow, cur, idx, results, agents >>
  /\ UNCHANGED << engine_started, execution_queue, active_workflows, loop_busy, hung,
                  calls, returned, metrics, task_log, now, budgetVars >>
  /\ query' = NoQuery

\* the worker is back at its queue.get()
BackToQueue(w) ==
  /\ pc' = [pc EXCEPT ![w] = "get"]
  /\ cur' = [cur EXCEPT ![w] = 0]
  /\ idx' = [idx EXCEPT ![w] = 0]
  /\ results' = [results EXCEPT ![w] = << >>]
  /\ agents' = [agents EXCEPT ![w] = << >>]

\* a faulty worker without its except clause: the exception ends the loop
\* (C8_WorkerPoolSurvives depends on the except clause)
worker_exits(w) ==
  /\ pc' = [pc EXCEPT ![w] = "exited"]
  /\ cur' = [cur EXCEPT ![w] = 0]
  /\ idx' = [idx EXCEPT ![w] = 0]
  /\ results' = [results EXCEPT ![w] = << >>]
  /\ agents' = [agents EXCEPT ![w] = << >>]

\* _workflow_worker's except clause: log the error, asyncio.sleep(1)
worker_except(w) ==
  /\ pc' = [pc EXCEPT ![w] = "sleep"]
  /\ cur' = [cur EXCEPT ![w] = 0]
  /\ idx' = [idx EXCEPT ![w] = 0]
  /\ results' = [results EXCEPT ![w] = << >>]
  /\ agents' = [agents EXCEPT ![w] = << >>]

\* update_workflow_metrics returns: _execute_workflow returns, task_done()
UpdateMetrics(w, ok) ==
  /\ LoopFree
  /\ pc[w] = "update_metrics"
  /\ LET r == workflow[cur[w]] IN
       update_workflow_metrics(cur[w],
         [ status |-> r.status, execution_time |-> SumTimes(results[w]),
           tokens_used |-> SumTokens(results[w]) ], ok)
  /\ IF ~ok THEN Raise(w, SinkError)
     ELSE BackToQueue(w) /\ UNCHANGED workflow
  /\ UNCHANGED << engine_started, execution_queue, active_workflows, loop_busy, hung,
                  calls, returned, events, task_log, now, budgetVars >>
  /\ query' = NoQuery

\* workflow_failed is logged in the except clause: _execute_workflow returns,
\* or the publication's exception leaves it and reaches the worker
LogFailed(w, ok) ==
  /\ LoopFree
  /\ pc[w] = "log_failed"
  /\ log_workflow_event(cur[w], Event("workflow_failed", None, None, << 0, 1 >>), ok)
  /\ IF ok THEN BackToQueue(w) ELSE worker_except(w)
  /\ UNCHANGED << engine_started, execution_queue, active_workflows, workflow, loop_busy,
                  hung, calls, returned, metrics, task_log, now, budgetVars >>
  /\ query' = NoQuery

\* asyncio.sleep(1) is over: the worker loops to its queue.get()
SleepDone(w) ==
  /\ LoopFree
  /\ pc[w] = "sleep"
  /\ pc' = [pc EXCEPT ![w] = "get"]
  /\ UNCHANGED << engine_started, execution_queue, active_workflows, workflow, cur, idx,
                  results, agents, loop_busy, hung, calls, returned, sinkVars, task_log, now, budgetVars >>
  /\ query' = NoQuery

(***************************************************************************)
(* The specification.                                                      *)
(***************************************************************************)
\* the execution ids a caller can hold
KnownIds == DOMAIN workflow

\* every step of a worker while no exception reaches its except clause
WorkerRun(w) ==
  \/ Dequeue(w)
  \/ \E ok \in SinkOutcomes : LogStarted(w, ok)
  \/ \E ok \in SinkOutcomes : LogTaskStarted(w, ok)
  \/ \E out \in InvokerOutcomes : execute_task(w, out)
  \/ \E ok \in SinkOutcomes : LogTaskCompleted(w, ok)
  \/ \E ok \in SinkOutcomes : LogCompleted(w, ok)
  \/ \E ok \in SinkOutcomes : UpdateMetrics(w, ok)
  \/ \E ok \in SinkOutcomes : LogFailed(w, ok)

\* every step of a worker
WorkerStep(w) ==
  \/ WorkerRun(w)
  \/ SleepDone(w)

\* A behaviour of Spec has cancel calls or failing MonitoringService calls.
Init ==
  /\ InitEngine
  /\ submits_left = MaxExec
  /\ \E b \in { << MaxCancels, 0 >>, << 0, MaxSinkFailures >> } :
       cancels_left = b[1] /\ sink_failures_left = b[2]

\* every step of the engine and of the MonitoringService calls, the
\* submissions aside
EngineStep ==
  \/ \E c \in calls, ok \in SinkOutcomes : submit_workflow_logged(c, ok)
  \/ \E e \in KnownIds : cancel_workflow(e)
  \/ \E c \in calls, ok \in SinkOutcomes : cancel_workflow_logged(c, ok)
  \/ \E w \in Workers : WorkerStep(w)

\* the same where the sink does not fail: no exception reaches a worker
HealthyStep ==
  \/ \E c \in calls, ok \in SinkOutcomes : submit_workflow_logged(c, ok)
  \/ \E e \in KnownIds : cancel_workflow(e)
  \/ \E c \in calls, ok \in SinkOutcomes : cancel_workflow_logged(c, ok)
  \/ \E w \in Workers : WorkerRun(w)

Next ==
  \/ start_engine
  \/ \E s \in Submissions : submit_workflow(s.workflow_id, s.crew_agents, s.tasks, s.inputs)
  \/ EngineStep

Spec == Init /\ [][Next]_vars

(***************************************************************************)
(* LoadSpec: a started engine and a sink that does not fail.  A behaviour  *)
(* has one more submission than the pool has workers, or as many           *)
(* submissions as workers and callers that cancel.                         *)
(***************************************************************************)
LoadSubmissions ==
  { Submission("wfA", << AgentTemplate("researcher", FALSE) >>, TaskList(1, None), EmptyMap),
    Submission("wfA", << AgentTemplate("researcher", TRUE) >>, TaskList(1, None), EmptyMap) }

\* the engine after __init__ and start_engine
InitStarted ==
  /\ engine_started = TRUE
  /\ execution_queue = << >>
  /\ active_workflows = {}
  /\ workflow = [e \in {} |-> 0]
  /\ pc = [w \in Workers |-> "get"]
  /\ cur = [w \in Workers |-> 0]
  /\ idx = [w \in Workers |-> 0]
  /\ results = [w \in Workers |-> << >>]
  /\ agents = [w \in Workers |-> << >>]
  /\ loop_busy = 0
  /\ hung = FALSE
  /\ calls = {}
  /\ returned = {}
  /\ query = NoQuery
  /\ events = [e \in {} |-> << >>]
  /\ metrics = [e \in {} |-> << >>]
  /\ task_log = [e \in {} |-> << >>]
  /\ now = 1

LoadInit ==
  /\ InitStarted
  /\ \E b \in { << PoolSize + 1, 0 >>, << PoolSize, MaxCancels >> } :
       submits_left = b[1] /\ cancels_left = b[2]
  /\ sink_failures_left = 0

LoadNext ==
  \/ \E s \in LoadSubmissions :
       submit_workflow(s.workflow_id, s.crew_agents, s.tasks, s.inputs)
  \/ HealthyStep

LoadSpec == LoadInit /\ [][LoadNext]_vars

(***************************************************************************)
(* HangSpec: an agent call may never return.  The event loop runs every    *)
(* coroutine that is ready, so every step that stays enabled is taken.     *)
(***************************************************************************)
HangInit ==
  /\ InitEngine
  /\ submits_left = MaxExec
  /\ cancels_left = 0
  /\ sink_failures_left = 0

HangNext ==
  \/ start_engine
  \/ \E s \in LoadSubmissions :
       submit_workflow(s.workflow_id, s.crew_agents, s.tasks, s.inputs)
  \/ \E c \in calls, ok \in SinkOutcomes : submit_workflow_logged(c, ok)
  \/ \E w \in Workers : WorkerRun(w)
  \/ \E w \in Workers : Hang(w)

HangSpec ==
  /\ HangInit
  /\ [][HangNext]_vars
  /\ WF_vars(start_engine)
  /\ \A w \in Workers : WF_vars(WorkerRun(w))

(***************************************************************************)
(* LiveSpec: every agent call and every MonitoringService call returns or  *)
(* raises, with cancel calls or one failing MonitoringService call.  The   *)
(* event loop runs every coroutine that is ready, so every step of a       *)
(* worker that stays enabled is taken.                                     *)
(***************************************************************************)
LiveNext ==
  \/ start_engine
  \/ \E s \in LoadSubmissions :
       submit_workflow(s.workflow_id, s.crew_agents, s.tasks, s.inputs)
  \/ EngineStep

LiveSpec ==
  /\ Init
  /\ [][LiveNext]_vars
  /\ WF_vars(start_engine)
  /\ \A w \in Workers : WF_vars(WorkerStep(w))

(***************************************************************************)
(* QuerySpec: a started engine whose sink does not fail and callers that   *)
(* read the status and the history of workflow ids.  The clock moves on    *)
(* while an execution waits and another was started at its reading, so     *)
(* that executions are started at the same and at different times.         *)
(***************************************************************************)
\* the workflow ids callers read: one that is submitted, one that is not
QueryIds == { "wfA", "wfC" }

QuerySubmissions ==
  { Submission("wfA", << AgentTemplate("researcher", TRUE) >>, TaskList(1, None), EmptyMap),
    Submission("wfB", << AgentTemplate("researcher", FALSE) >>, TaskList(1, None), EmptyMap) }

\* an hour passes between the start of an execution and the next one's
TickAfterStart ==
  /\ \E e \in DOMAIN workflow : workflow[e].started_at = now
  /\ execution_queue # << >>
  /\ Tick

QueryInit ==
  /\ InitStarted
  /\ submits_left = MaxExec
  /\ cancels_left = 0
  /\ sink_failures_left = 0

QueryNext ==
  \/ \E s \in QuerySubmissions :
       submit_workflow(s.workflow_id, s.crew_agents, s.tasks, s.inputs)
  \/ \E c \in calls, ok \in SinkOutcomes : submit_workflow_logged(c, ok)
  \/ \E w \in Workers : WorkerRun(w)
  \/ TickAfterStart
  \/ \E workflow_id \in QueryIds : get_workflow_status_call(workflow_id)
  \/ \E workflow_id \in QueryIds, limit \in 1..MaxLimit :
       get_workflow_history_call(workflow_id, limit)

QuerySpec == QueryInit /\ [][QueryNext]_vars

(***************************************************************************)
(* ReaperSpec: a started engine whose sink does not fail, a clock that     *)
(* moves on at any time, and the reaper.                                   *)
(***************************************************************************)
ReaperNext ==
  \/ \E s \in QuerySubmissions :
       submit_workflow(s.workflow_id, s.crew_agents, s.tasks, s.inputs)
  \/ \E c \in calls, ok \in SinkOutcomes : submit_workflow_logged(c, ok)
  \/ \E w \in Workers : WorkerRun(w)
  \/ Tick
  \/ cleanup_completed_workflows

ReaperSpec == QueryInit /\ [][ReaperNext]_vars

(***************************************************************************)
(* TaskSpec: a started engine whose sink does not fail, callers that       *)
(* submit a map of inputs of their own, and every outcome of a task.       *)
(***************************************************************************)
\* the input map of a caller; inputs or {} keeps it as the dict of the record
TaskInputs == [ k \in {"topic"} |-> "ai" ]

\* a crew of two agents with a task list for the second agent, and a crew
\* no agent can be created from
TaskSubmissions ==
  { Submission("wfA", << AgentTemplate("researcher", TRUE), AgentTemplate("writer", TRUE) >>,
               TaskList(MaxTasks, "writer"), TaskInputs),
    Submission("wfA", << AgentTemplate("researcher", FALSE) >>, TaskList(1, None),
               TaskInputs) }

\* every step of a worker, with every outcome of a task
TaskRun(w) ==
  \/ Dequeue(w)
  \/ \E ok \in SinkOutcomes : LogStarted(w, ok)
  \/ \E ok \in SinkOutcomes : LogTaskStarted(w, ok)
  \/ \E out \in ExecutorOutcomes : execute_task(w, out)
  \/ \E ok \in SinkOutcomes : LogTaskCompleted(w, ok)
  \/ \E ok \in SinkOutcomes : LogCompleted(w, ok)
  \/ \E ok \in SinkOutcomes : UpdateMetrics(w, ok)
  \/ \E ok \in SinkOutcomes : LogFailed(w, ok)

TaskNext ==
  \/ \E s \in TaskSubmissions :
       submit_workflow(s.workflow_id, s.crew_agents, s.tasks, s.inputs)
  \/ \E c \in calls, ok \in SinkOutcomes : submit_workflow_logged(c, ok)
  \/ \E w \in Workers : TaskRun(w)

TaskSpec == QueryInit /\ [][TaskNext]_vars

(***************************************************************************)
(* ExecutorSpec: _execute_task called for every task, every list of        *)
(* agents and every outcome; query holds the arguments and the dict        *)
(* returned.                                                               *)
(***************************************************************************)
MaxAgents == 2
\* the roles of the agents of a crew, and a role no agent of it has
Roles == { "researcher", "writer" }
ExecutorTasks ==
  { TaskDefinition(TaskNames[k], agent_id) :
      k \in 1..MaxTasks, agent_id \in {None, "editor"} \cup Roles }
ExecutorAgents == UNION { [1..n -> Roles] : n \in 0..MaxAgents }

execute_task_call(task_def, ags, out) ==
  /\ LoopFree
  /\ query' = [ op |-> "execute_task", task_def |-> task_def, agents |-> ags, out |-> out,
                result |-> ExecuteTask(task_def, ags, out) ]
  /\ UNCHANGED engineVars

ExecutorInit ==
  /\ InitStarted
  /\ submits_left = 0
  /\ cancels_left = 0
  /\ sink_failures_left = 0

ExecutorNext ==
  \E task_def \in ExecutorTasks, ags \in ExecutorAgents, out \in ExecutorOutcomes :
    execute_task_call(task_def, ags, out)

ExecutorSpec == ExecutorInit /\ [][ExecutorNext]_vars

(***************************************************************************)
(* ApiSpec: the callers of the API on an engine start_engine was never     *)
(* called on (main.py does not call it).  Callers submit, cancel the ids   *)
(* they hold and an id no submission returned, and the sink may fail.      *)
(***************************************************************************)
\* an execution id submit_workflow never returned
UnknownId == 0

ApiInit ==
  /\ InitEngine
  /\ submits_left = MaxExec
  /\ cancels_left = MaxCancels
  /\ sink_failures_left = MaxSinkFailures

ApiNext ==
  \/ \E s \in Submissions : submit_workflow(s.workflow_id, s.crew_agents, s.tasks, s.inputs)
  \/ \E c \in calls, ok \in SinkOutcomes : submit_workflow_logged(c, ok)
  \/ \E e \in KnownIds \cup {UnknownId} : cancel_workflow(e)
  \/ \E c \in calls, ok \in SinkOutcomes : cancel_workflow_logged(c, ok)

ApiSpec == ApiInit /\ [][ApiNext]_vars

(***************************************************************************)
(* Vocabulary of the properties.                                           *)
(***************************************************************************)
\* the execution is enqueued: no worker has dequeued it yet
InQueue(e) == \E k \in 1..Len(execution_queue) : execution_queue[k] = e
\* a worker is running the execution
Owned(e) == \E w \in Workers : cur[w] = e
\* the execution's run is over: it was dequeued and its worker let go of it
RunOver(e) == ~InQueue(e) /\ ~Owned(e)
Terminal(e) == workflow[e].status \in {COMPLETED, FAILED, CANCELLED}
\* the calls of the Task Executor for the execution, and its returns
IsCall(x) == x.op = "call"
IsReturn(x) == x.op = "return"
CallsOf(e) == SelectSeq(task_log[e], IsCall)
ReturnsOf(e) == SelectSeq(task_log[e], IsReturn)
\* a task of the execution is in flight: called and not returned
InFlight(e) == Len(CallsOf(e)) > Len(ReturnsOf(e))

(***************************************************************************)
(* C1 (fail-fast).  Whenever the Task Executor has reported FAILED for the *)
(* k-th task of an execution, no later task of it has been started and     *)
(* exactly k TaskResults have been produced; and once its run is over the  *)
(* execution's status is FAILED and its error is that task's error.        *)
(* The code breaks the last part: an exception of a later event            *)
(* publication replaces the error, and a cancel replaces the status.       *)
(***************************************************************************)
C1_FailFast ==
  \A e \in DOMAIN workflow :
    \A k \in 1..Len(ReturnsOf(e)) :
      ReturnsOf(e)[k].status = FAILED =>
        /\ Len(CallsOf(e)) = k
        /\ Len(ReturnsOf(e)) = k
        /\ RunOver(e) => /\ workflow[e].status = FAILED
                         /\ workflow[e].error = ReturnsOf(e)[k].error

(***************************************************************************)
(* C2 (task ordering).  The Task Executor is called for the tasks of an    *)
(* execution in the submitted order, each call after the return of the     *)
(* one before: the log of an execution is call T1, return T1, call T2,     *)
(* return T2, ...  The result list of the worker that runs it, and the     *)
(* list stored in the record, hold the results of T1, T2, ... in that      *)
(* order, and at most one worker has a task of the execution in flight.    *)
(***************************************************************************)
ResultsInOrder(e, rs) ==
  /\ Len(rs) <= Len(workflow[e].tasks)
  /\ \A k \in 1..Len(rs) : rs[k].task = workflow[e].tasks[k].name

C2_TaskOrdering ==
  \A e \in DOMAIN workflow :
    /\ Len(task_log[e]) <= 2 * Len(workflow[e].tasks)
    /\ \A j \in 1..Len(task_log[e]) :
         /\ task_log[e][j].op = (IF j % 2 = 1 THEN "call" ELSE "return")
         /\ task_log[e][j].task = workflow[e].tasks[(j + 1) \div 2].name
    /\ ResultsInOrder(e, workflow[e].results)
    /\ \A w \in Workers : cur[w] = e =>
         /\ ResultsInOrder(e, results[w])
         /\ Len(results[w]) = Len(ReturnsOf(e))
    /\ Cardinality({ w \in Workers : cur[w] = e /\ pc[w] = "invoke" }) <= 1

\* an execution of two tasks whose second task is in flight
C2_Witness ==
  \E e \in DOMAIN workflow :
    /\ Len(task_log[e]) = 3
    /\ InFlight(e)
    /\ \E w \in Workers : cur[w] = e /\ Len(results[w]) = 1

(***************************************************************************)
(* C3 (bounded concurrency).  At most PoolSize executions have the status  *)
(* RUNNING, and an execution no worker has dequeued yet has the status     *)
(* PENDING unless it was cancelled.                                        *)
(***************************************************************************)
C3_BoundedConcurrency ==
  /\ Cardinality({ e \in DOMAIN workflow : workflow[e].status = RUNNING }) <= PoolSize
  /\ \A e \in DOMAIN workflow :
       InQueue(e) => \/ workflow[e].status = PENDING
                     \/ workflow[e].status = CANCELLED /\ workflow[e].cancelled_at # 0

\* every worker runs an execution and one more execution waits in the queue
C3_Witness ==
  /\ Cardinality({ e \in DOMAIN workflow : workflow[e].status = RUNNING }) = PoolSize
  /\ \A w \in Workers : cur[w] # 0
  /\ \E e \in DOMAIN workflow : InQueue(e) /\ workflow[e].status = PENDING

(***************************************************************************)
(* C4 (cancel of a pending execution).  An execution that was cancelled    *)
(* while it is still enqueued does not get the status RUNNING.  The code   *)
(* breaks it: the worker that dequeues the execution sets RUNNING without  *)
(* reading the status.                                                     *)
(***************************************************************************)
C4_CancelledPendingNeverRuns ==
  [][ \A e \in DOMAIN workflow :
        (InQueue(e) /\ workflow[e].status = CANCELLED) => workflow'[e].status # RUNNING ]_vars

(***************************************************************************)
(* C5 (progress 1.0 iff COMPLETED).  In every state the progress of an     *)
(* execution is 1.0 exactly when its status is COMPLETED.  The code breaks *)
(* it: the loop sets the progress (i + 1) / N before task i runs, which is *)
(* 1.0 for the last task while the status is RUNNING.                      *)
(***************************************************************************)
C5_ProgressOneIffCompleted ==
  \A e \in DOMAIN workflow :
    ProgressIsOne(workflow[e].progress) <=> workflow[e].status = COMPLETED

(***************************************************************************)
(* C6 (progress monotonicity).  No step of the system lowers the progress  *)
(* of an execution.                                                        *)
(***************************************************************************)
C6_ProgressMonotone ==
  [][ \A e \in DOMAIN workflow :
        ProgressLE(workflow[e].progress, workflow'[e].progress) ]_vars

\* an execution of two tasks went through 1/2 and 2/2 and was completed
C6_Witness ==
  \E e \in DOMAIN workflow :
    /\ Len(workflow[e].tasks) = 2
    /\ workflow[e].status = COMPLETED
    /\ workflow[e].progress = << 1, 1 >>

(***************************************************************************)
(* C7 (the runner never propagates an exception).  No exception of a run   *)
(* leaves _execute_workflow: no worker is ever in its own except clause.   *)
(* The code breaks it: the except clause of _execute_workflow publishes    *)
(* workflow_failed outside any try, and that publication can raise.        *)
(***************************************************************************)
C7_RunnerNeverPropagates ==
  \A w \in Workers : pc[w] # "sleep"

(***************************************************************************)
(* C8 (worker pool survival).  Once start_engine has run, each of the      *)
(* PoolSize workers is inside its loop in every state, and a worker that   *)
(* leaves the except clause of a run or its own except clause is back at   *)
(* its queue.get() or in its sleep before it.                              *)
(***************************************************************************)
WorkerLoopPcs ==
  { "get", "log_started", "log_task_started", "invoke", "log_task_completed",
    "log_completed", "update_metrics", "log_failed", "sleep" }

C8_WorkerPoolSurvives ==
  /\ [](engine_started =>
          Cardinality({ w \in Workers : pc[w] \in WorkerLoopPcs }) = PoolSize)
  /\ [][ \A w \in Workers :
           (pc[w] \in {"log_failed", "sleep"} /\ pc'[w] # pc[w])
             => pc'[w] \in {"get", "sleep"} ]_vars

\* an execution failed, the publication of workflow_failed raised into the
\* worker, and every worker is in its loop and out of its sleep again
C8_Witness ==
  /\ \A w \in Workers : pc[w] \in WorkerLoopPcs \ {"sleep"}
  /\ \E e \in DOMAIN workflow :
       /\ RunOver(e)
       /\ workflow[e].status = FAILED
       /\ workflow[e].error = NoAgentsError
       /\ \A k \in 1..Len(events[e]) : events[e][k].event_type # "workflow_failed"

(***************************************************************************)
(* C9 (a hung execution does not block the queue).  When an agent call of  *)
(* one worker never returns, every execution that is still enqueued        *)
(* eventually reaches a terminal status.  The code breaks it: the agent    *)
(* call is a blocking call on the event loop every worker runs on.         *)
(***************************************************************************)
C9_HungDoesNotBlock ==
  \A e \in 1..MaxExec :
    (hung /\ e \in DOMAIN workflow /\ InQueue(e))
      ~> (e \in DOMAIN workflow /\ Terminal(e))

(***************************************************************************)
(* C10 (isolation).  A step of the worker that runs execution A changes    *)
(* the record, the Task Executor log and the result list of no other       *)
(* execution.                                                              *)
(***************************************************************************)
C10_Isolation ==
  [][ \A w \in Workers :
        pc'[w] # pc[w] =>
          /\ \A b \in DOMAIN workflow :
               (b # cur[w] /\ b # cur'[w]) =>
                 workflow'[b] = workflow[b] /\ task_log'[b] = task_log[b]
          /\ \A v \in Workers \ {w} : results'[v] = results[v] ]_vars

\* two executions run concurrently, one has failed and the other goes on
C10_Witness ==
  \E w \in Workers, v \in Workers :
    /\ w # v /\ cur[w] # 0 /\ cur[v] # 0
    /\ workflow[cur[w]].status = FAILED
    /\ workflow[cur[v]].status = RUNNING
    /\ Len(results[v]) >= 1

(***************************************************************************)
(* C11 (global FIFO start).  Execution ids are issued in the order of the  *)
(* submissions.  Whenever an execution becomes RUNNING, every execution    *)
(* submitted before it has become RUNNING before (its started_at is set).  *)
(***************************************************************************)
C11_GlobalFifoStart ==
  [][ \A b \in DOMAIN workflow :
        (workflow[b].status # RUNNING /\ workflow'[b].status = RUNNING) =>
          \A a \in DOMAIN workflow : a < b => workflow[a].started_at # 0 ]_vars

\* two executions were started one after the other and run concurrently
C11_Witness ==
  \E a \in DOMAIN workflow, b \in DOMAIN workflow :
    /\ a < b
    /\ workflow[a].status = RUNNING /\ workflow[b].status = RUNNING
    /\ \E w \in Workers, v \in Workers : w # v /\ cur[w] = a /\ cur[v] = b

(***************************************************************************)
(* C12 (submit returns at once).  Every submit_workflow call that is over  *)
(* returned its execution id, with the record tracked and its              *)
(* workflow_submitted event in the sink, whether or not a worker runs.     *)
(* The code breaks it where the publication raises: the call ends with     *)
(* that exception and no event.                                            *)
(***************************************************************************)
HasEvent(e, event_type) ==
  \E k \in 1..Len(events[e]) : events[e][k].event_type = event_type

C12_SubmitReturns ==
  \A x \in returned :
    x.op = "submit" =>
      /\ x.outcome = "execution_id"
      /\ x.execution_id \in active_workflows
      /\ HasEvent(x.execution_id, "workflow_submitted")

(***************************************************************************)
(* C13 (submit fails only on a closed queue).  The queue of the engine is  *)
(* never closed, and a submit_workflow call that raised has left no record *)
(* tracked or enqueued.  The code breaks it: the publication comes after   *)
(* the put and the tracking, and its exception fails the call.             *)
(***************************************************************************)
C13_FailedSubmitLeavesNothing ==
  \A x \in returned :
    (x.op = "submit" /\ x.outcome = "raised") =>
      /\ x.execution_id \notin active_workflows
      /\ ~InQueue(x.execution_id)

(***************************************************************************)
(* C14 (publication is fire-and-forget).  A step of a run in which the     *)
(* publication of an event raises does not make the publication's error    *)
(* the error of the execution and does not send the run to its except      *)
(* clause.  The code breaks it: every publication of a run is awaited      *)
(* inside the try of _execute_workflow.                                    *)
(***************************************************************************)
PublishPcs == { "log_started", "log_task_started", "log_task_completed", "log_completed" }

C14_PublishFireAndForget ==
  [][ \A w \in Workers :
        (/\ pc[w] \in PublishPcs
         /\ pc'[w] # pc[w]
         /\ sink_failures_left' < sink_failures_left)
          => /\ pc'[w] # "log_failed"
             /\ workflow'[cur[w]].status # FAILED \/ workflow'[cur[w]].error # SinkError ]_vars

(***************************************************************************)
(* C15 (the result of cancel).  Every cancel_workflow call that is over    *)
(* returned True when its id is tracked, with the record CANCELLED and     *)
(* cancelled_at stamped, and False when it is not.  The code breaks it     *)
(* where the publication of workflow_cancelled raises: the record is       *)
(* CANCELLED and the call ends with the exception.                         *)
(***************************************************************************)
C15_CancelResult ==
  \A x \in returned :
    x.op = "cancel" =>
      IF x.execution_id \in active_workflows
      THEN /\ x.outcome = "True"
           /\ workflow[x.execution_id].status = CANCELLED
           /\ workflow[x.execution_id].cancelled_at # 0
      ELSE x.outcome = "False"

(***************************************************************************)
(* C16 (cancellation is non-preemptive).  While a task of an execution is  *)
(* in flight, a step either leaves the record and the Task Executor log of *)
(* the execution alone, or is the return of that task with its own         *)
(* TaskResult: no cancel takes effect before the task boundary.            *)
(***************************************************************************)
C16_NonPreemptive ==
  [][ \A e \in DOMAIN workflow :
        InFlight(e) =>
          LET log == task_log[e]
              log2 == task_log'[e]
          IN  \/ log2 = log /\ workflow'[e] = workflow[e]
              \/ /\ Len(log2) = Len(log) + 1
                 /\ SubSeq(log2, 1, Len(log)) = log
                 /\ log2[Len(log2)].op = "return"
                 /\ log2[Len(log2)].task = log[Len(log)].task
                 /\ log2[Len(log2)].status \in {COMPLETED, FAILED} ]_vars

\* a cancel was recorded before the agent call began, and the task is in
\* flight all the same
C16_Witness ==
  \E e \in DOMAIN workflow :
    /\ InFlight(e)
    /\ workflow[e].status = CANCELLED
    /\ workflow[e].cancelled_at # 0

(***************************************************************************)
(* C17 (no agents).  An execution from whose crew no agent is created and  *)
(* whose run is over is FAILED with the error "no agents available", with  *)
(* completed_at stamped, no task_started event and no TaskResult.          *)
(* The code breaks it: the error it records is another text.               *)
(***************************************************************************)
C17_NoAgents ==
  \A e \in DOMAIN workflow :
    (CreatedRoles(workflow[e].crew_agents) = << >> /\ RunOver(e)) =>
      /\ workflow[e].status = FAILED
      /\ workflow[e].error = "no agents available"
      /\ workflow[e].started_at # 0
      /\ workflow[e].completed_at # 0
      /\ task_log[e] = << >>
      /\ ~HasEvent(e, "task_started")

(***************************************************************************)
(* C18 (all-success run).  An execution that was never cancelled, whose    *)
(* run is over and whose N >= 1 tasks all returned COMPLETED, is COMPLETED *)
(* with progress 1.0, holds N TaskResults, and its execution_time and      *)
(* tokens_used are the sums over those TaskResults.  The code breaks it    *)
(* where a publication of the run raises.                                  *)
(***************************************************************************)
AllSucceeded(e) ==
  /\ Len(ReturnsOf(e)) = Len(workflow[e].tasks)
  /\ \A k \in 1..Len(ReturnsOf(e)) : ReturnsOf(e)[k].status = COMPLETED

C18_AllSuccessRun ==
  \A e \in DOMAIN workflow :
    (/\ RunOver(e)
     /\ CreatedRoles(workflow[e].crew_agents) # << >>
     /\ Len(workflow[e].tasks) >= 1
     /\ AllSucceeded(e)
     /\ workflow[e].cancelled_at = 0) =>
      /\ workflow[e].status = COMPLETED
      /\ ProgressIsOne(workflow[e].progress)
      /\ Len(workflow[e].results) = Len(workflow[e].tasks)
      /\ workflow[e].execution_time = SumTimes(workflow[e].results)
      /\ workflow[e].tokens_used = SumTokens(workflow[e].results)

(***************************************************************************)
(* C19 (bound of the TaskResults), as the claim states it.  An execution   *)
(* has at most as many TaskResults as tasks, and when it has as many       *)
(* (N >= 1) and its run is over with a terminal status, it is COMPLETED.   *)
(* It fails where the N-th task is the one that fails.                     *)
(***************************************************************************)
C19_AllResultsOnlyOnCompleted ==
  \A e \in DOMAIN workflow :
    /\ Len(ReturnsOf(e)) <= Len(workflow[e].tasks)
    /\ (/\ Len(workflow[e].tasks) >= 1
        /\ Len(ReturnsOf(e)) = Len(workflow[e].tasks)
        /\ RunOver(e) /\ Terminal(e)) => workflow[e].status = COMPLETED

(***************************************************************************)
(* C19 as amended.  An execution has at most as many TaskResults as tasks, *)
(* and whenever its status is COMPLETED it has exactly as many, each of    *)
(* them COMPLETED.                                                         *)
(***************************************************************************)
C19_CompletedHasAllResults ==
  \A e \in DOMAIN workflow :
    /\ Len(ReturnsOf(e)) <= Len(workflow[e].tasks)
    /\ workflow[e].status = COMPLETED => AllSucceeded(e)

\* one execution is COMPLETED with as many TaskResults as tasks, and another
\* has as many TaskResults as tasks and is FAILED by the last of them
C19_Witness ==
  /\ \E e \in DOMAIN workflow :
       /\ workflow[e].status = COMPLETED
       /\ Len(workflow[e].tasks) >= 1
       /\ Len(ReturnsOf(e)) = Len(workflow[e].tasks)
  /\ \E e \in DOMAIN workflow :
       /\ workflow[e].status = FAILED
       /\ Len(workflow[e].tasks) >= 1
       /\ Len(ReturnsOf(e)) = Len(workflow[e].tasks)
       /\ ReturnsOf(e)[Len(ReturnsOf(e))].status = FAILED

(***************************************************************************)
(* C20 (current task and agent).  While a task of an execution is in       *)
(* flight, the record's current_task is the name of that task and its      *)
(* current_agent is the agent that executes it.  The code breaks it:       *)
(* current_agent is written after the task has returned.                   *)
(***************************************************************************)
C20_CurrentTaskAndAgent ==
  \A w \in Workers :
    pc[w] = "invoke" =>
      LET r == workflow[cur[w]]
          task_def == TaskAt(r, idx[w])
      IN  /\ r.current_task = task_def.name
          /\ r.current_agent = SelectAgent(task_def, agents[w])

(***************************************************************************)
(* C21 (exclusive ownership).  No two workers run the same execution, no   *)
(* execution is in the queue twice or in the queue while a worker runs it, *)
(* and an execution that has left the queue never enters it again.         *)
(***************************************************************************)
C21_ExclusiveOwnership ==
  /\ [](/\ \A w \in Workers, v \in Workers :
             (w # v /\ cur[w] # 0) => cur[w] # cur[v]
        /\ \A j \in 1..Len(execution_queue), k \in 1..Len(execution_queue) :
             j # k => execution_queue[j] # execution_queue[k]
        /\ \A e \in DOMAIN workflow : ~(InQueue(e) /\ Owned(e)))
  /\ [][ \A e \in DOMAIN workflow :
           ~InQueue(e) => \A k \in 1..Len(execution_queue') : execution_queue'[k] # e ]_vars

\* every worker runs an execution of its own while another one waits
C21_Witness ==
  /\ \A w \in Workers : cur[w] # 0
  /\ \A w \in Workers, v \in Workers : w # v => cur[w] # cur[v]
  /\ execution_queue # << >>

(***************************************************************************)
(* C22 (status).  get_workflow_status returns not-found when no tracked    *)
(* execution has the workflow id, and otherwise the snapshot of the most   *)
(* recently created tracked execution that has it.                         *)
(***************************************************************************)
C22_StatusMostRecent ==
  query.op = "status" =>
    LET ids == Matching(query.workflow_id)
    IN  query.result = IF ids = << >> THEN NotFound
                       ELSE WorkflowStatus(workflow[ids[Len(ids)]])

(***************************************************************************)
(* C23 (history).  get_workflow_history returns only entries of tracked    *)
(* executions whose workflow id matches, each once and at most limit of    *)
(* them, ordered most-recent-first by started_at with the executions not   *)
(* yet started last, and the entries it returns are the limit most recent  *)
(* ones: as many as the limit allows, and none started before an           *)
(* execution that is left out.                                             *)
(***************************************************************************)
C23_HistoryMostRecentFirst ==
  query.op = "history" =>
    LET h == query.result
        matching == { e \in active_workflows : workflow[e].workflow_id = query.workflow_id }
        listed == { h[k].execution_id : k \in 1..Len(h) }
    IN  /\ listed \subseteq matching
        /\ \A k \in 1..Len(h) :
             /\ h[k].status = workflow[h[k].execution_id].status
             /\ h[k].started_at = workflow[h[k].execution_id].started_at
             /\ h[k].completed_at = workflow[h[k].execution_id].completed_at
        /\ Cardinality(listed) = Len(h)
        /\ Len(h) <= query.limit
        /\ \A k \in 1..Len(h), l \in 1..Len(h) :
             k < l => h[k].started_at >= h[l].started_at
        /\ Len(h) = query.limit \/ listed = matching
        /\ \A e \in matching \ listed, k \in 1..Len(h) :
             workflow[e].started_at <= h[k].started_at

\* the one most recent execution is asked for when the workflow id has an
\* earlier execution and a later one
C23_Witness ==
  /\ query.op = "history"
  /\ query.limit = 1
  /\ \E e1 \in active_workflows, e2 \in active_workflows :
       /\ e1 < e2
       /\ workflow[e1].workflow_id = query.workflow_id
       /\ workflow[e2].workflow_id = query.workflow_id
       /\ 0 < workflow[e1].started_at
       /\ workflow[e1].started_at < workflow[e2].started_at
       /\ query.result[1].execution_id = e2

EventCount(e, event_type) ==
  LET is_type(ev) == ev.event_type = event_type
  IN  Len(SelectSeq(events[e], is_type))

C25_OneTerminalEvent ==
  \A e \in DOMAIN workflow :
    RunOver(e) =>
      /\ EventCount(e, "workflow_completed") + EventCount(e, "workflow_failed") = 1
      /\ EventCount(e, "workflow_failed") = 1
           <=> workflow[e].error \in {NoAgentsError, SinkError}

(***************************************************************************)
(* C26 (result propagation), as the claim states it.  When the task loop   *)
(* is at task j, before the task is started and while it is in flight, the *)
(* input map of the execution, which is the map passed to the task, holds  *)
(* the textual result of every task i < j that succeeded, under the key    *)
(* task_i_result.                                                          *)
(***************************************************************************)
C26_ResultPropagated ==
  \A w \in Workers :
    pc[w] \in {"log_task_started", "invoke"} =>
      \A i \in 0..(idx[w] - 1) :
        results[w][i + 1].status = COMPLETED =>
          /\ TaskResultKey(i) \in DOMAIN workflow[cur[w]].inputs
          /\ workflow[cur[w]].inputs[TaskResultKey(i)] = results[w][i + 1].result

(***************************************************************************)
(* C26 (result propagation), amended.  The same for every task i < j that  *)
(* succeeded with a textual result that is not empty: the update of the    *)
(* inputs skips an empty result.                                           *)
(***************************************************************************)
C26_NonEmptyResultPropagated ==
  \A w \in Workers :
    pc[w] \in {"log_task_started", "invoke"} =>
      \A i \in 0..(idx[w] - 1) :
        (results[w][i + 1].status = COMPLETED /\ results[w][i + 1].result # "") =>
          /\ TaskResultKey(i) \in DOMAIN workflow[cur[w]].inputs
          /\ workflow[cur[w]].inputs[TaskResultKey(i)] = results[w][i + 1].result

\* the second task is in flight after the first one returned a text
C26_Witness ==
  \E w \in Workers :
    /\ pc[w] = "invoke"
    /\ idx[w] = 1
    /\ results[w][1].status = COMPLETED
    /\ results[w][1].result = "draft"
    /\ workflow[cur[w]].inputs["task_0_result"] = "draft"

(***************************************************************************)
(* C27 (the submission is immutable).  No step changes the workflow id,    *)
(* the crew descriptor, the task list or the input map a caller submitted. *)
(* Every caller of TaskSpec submits a map that is not empty, which         *)
(* inputs or {} makes the dict of the record; the code breaks the claim    *)
(* where the task loop writes a result into that dict.                     *)
(***************************************************************************)
C27_SubmissionImmutable ==
  [][ \A e \in DOMAIN workflow :
        /\ workflow'[e].workflow_id = workflow[e].workflow_id
        /\ workflow'[e].crew_agents = workflow[e].crew_agents
        /\ workflow'[e].tasks = workflow[e].tasks
        /\ workflow'[e].inputs = workflow[e].inputs ]_vars

(***************************************************************************)
(* C28 (the Task Executor only reports).  For every task, list of agents   *)
(* and outcome, _execute_task returns a dict whose status is COMPLETED or  *)
(* FAILED; it is FAILED with the error message and the name of the task    *)
(* when no agent is available, when the Task cannot be built and when the  *)
(* agent call raises, and COMPLETED otherwise; and the call writes nothing *)
(* of the engine, the status of an execution included.                     *)
(***************************************************************************)
C28_ExecutorOnlyReports ==
  /\ [](query.op = "execute_task" =>
          LET r == query.result
              failure == \/ query.agents = << >>
                         \/ query.out.task_raised
                         \/ query.out.raised
          IN  /\ r.status \in {COMPLETED, FAILED}
              /\ failure =>
                   /\ r.status = FAILED
                   /\ r.error = IF query.agents = << >> THEN NoAgentError
                                ELSE query.out.error
                   /\ query.task_def.name \in {r.task, r.task_name}
              /\ ~failure => r.status = COMPLETED /\ r.result = query.out.text)
  /\ [][ query'.op = "execute_task" => UNCHANGED engineVars ]_vars

\* the executor has reported that the Task of "t1" could not be built
C28_Witness ==
  /\ query.op = "execute_task"
  /\ query.agents # << >>
  /\ query.out.task_raised
  /\ query.result.status = FAILED
  /\ query.result.task_name = "t1"

(***************************************************************************)
(* C29 (agent selection).  For every task and list of agents, the executor *)
(* reports FAILED with the no-agent-available error when the list is       *)
(* empty; otherwise the agent it calls is the one whose role is the        *)
(* agent_id of the task when the agent_id is set and the list has such an  *)
(* agent, and the first agent of the list in every other case.             *)
(***************************************************************************)
C29_AgentSelection ==
  query.op = "execute_task" =>
    LET t == query.task_def
        ags == query.agents
        r == query.result
    IN  /\ ags = << >> => r.status = FAILED /\ r.error = NoAgentError
        /\ (ags # << >> /\ ~query.out.task_raised) =>
             r.agent = IF t.agent_id # None /\ \E k \in 1..Len(ags) : ags[k] = t.agent_id
                       THEN t.agent_id
                       ELSE ags[1]

\* the task asks for the second agent of the list and is executed by it
C29_Witness ==
  /\ query.op = "execute_task"
  /\ query.task_def.agent_id = "writer"
  /\ query.agents = << "researcher", "writer" >>
  /\ query.result.agent = "writer"

(***************************************************************************)
(* C30 (reaper safety).  A step removes a record from the tracked ones     *)
(* only if its status is terminal and its completion is older than the     *)
(* retention, and never while the execution is in the queue or a worker    *)
(* runs it; and it leaves every other record as it is.  The code breaks    *)
(* it for an execution whose worker is still in the publications that      *)
(* follow the stamp of completed_at.                                       *)
(***************************************************************************)
C30_ReaperSafety ==
  [][ /\ \A e \in active_workflows \ active_workflows' :
           /\ Terminal(e)
           /\ workflow[e].completed_at # 0
           /\ now - workflow[e].completed_at > Retention
           /\ ~InQueue(e)
           /\ ~Owned(e)
      /\ active_workflows' # active_workflows =>
           \A e \in DOMAIN workflow : workflow'[e] = workflow[e] ]_vars

(***************************************************************************)
(* C31 (CANCELLED is final).  No step takes the status of an execution     *)
(* from CANCELLED to another status.  The code breaks it: the runner       *)
(* never reads the status cancel_workflow has set, and writes RUNNING at   *)
(* its start and COMPLETED after the loop.                                 *)
(***************************************************************************)
C31_CancelledIsFinal ==
  [][ \A e \in DOMAIN workflow :
        workflow[e].status = CANCELLED => workflow'[e].status = CANCELLED ]_vars

(***************************************************************************)
(* C32 (COMPLETED and FAILED are absorbing).  Every step that changes the  *)
(* status of an execution takes it from PENDING to RUNNING, from RUNNING   *)
(* to COMPLETED or to FAILED, or from PENDING or RUNNING to CANCELLED.     *)
(* The code breaks it: cancel_workflow writes CANCELLED whatever the       *)
(* status is, and the except clause of the runner writes FAILED over       *)
(* COMPLETED.                                                              *)
(***************************************************************************)
StatusTransitions ==
  { << PENDING, RUNNING >>, << RUNNING, COMPLETED >>, << RUNNING, FAILED >>,
    << PENDING, CANCELLED >>, << RUNNING, CANCELLED >> }

C32_TerminalAbsorbing ==
  [][ \A e \in DOMAIN workflow :
        workflow'[e].status # workflow[e].status =>
          << workflow[e].status, workflow'[e].status >> \in StatusTransitions ]_vars

(***************************************************************************)
(* C33 (task events).  For an execution whose run is over, every task that *)
(* was attempted has exactly one task_started event, which carries the     *)
(* progress k/N of the k-th of N tasks, and exactly one task_completed     *)
(* event, which carries the status the Task Executor returned; the events  *)
(* of a task follow those of the task before it, task_started first; and   *)
(* a task that was not attempted has no task event.  The code breaks it    *)
(* where a publication raises: the task that was attempted has no          *)
(* task_completed event.                                                   *)
(***************************************************************************)
TaskEvents(e) ==
  LET is_task(ev) == ev.event_type \in {"task_started", "task_completed"}
  IN  SelectSeq(events[e], is_task)

C33_TaskEvents ==
  \A e \in DOMAIN workflow :
    RunOver(e) =>
      LET te == TaskEvents(e)
          attempted == Len(CallsOf(e))
          N == Len(workflow[e].tasks)
      IN  /\ Len(te) = 2 * attempted
          /\ Len(ReturnsOf(e)) = attempted
          /\ \A k \in 1..attempted :
               /\ te[2 * k - 1].event_type = "task_started"
               /\ te[2 * k - 1].task_name = workflow[e].tasks[k].name
               /\ te[2 * k - 1].progress = << k, N >>
               /\ te[2 * k].event_type = "task_completed"
               /\ te[2 * k].task_name = workflow[e].tasks[k].name
               /\ te[2 * k].status = ReturnsOf(e)[k].status

(***************************************************************************)
(* C34 (event order across submitter and worker).  An execution whose      *)
(* workflow_started event is published has its workflow_submitted event    *)
(* published before it.  The code breaks it: submit_workflow enqueues the  *)
(* execution before it awaits its publication, and a worker publishes      *)
(* workflow_started while the submitter is still suspended.                *)
(***************************************************************************)
C34_SubmittedBeforeStarted ==
  \A e \in DOMAIN workflow :
    \A k \in 1..Len(events[e]) :
      events[e][k].event_type = "workflow_started" =>
        \E j \in 1..(k - 1) : events[e][j].event_type = "workflow_submitted"

(***************************************************************************)
(* C35 (liveness).  Once start_engine has started the workers, every       *)
(* execution that is submitted eventually has a terminal status with its   *)
(* run over, and the workers are eventually all back at queue.get(),       *)
(* where every agent call and every MonitoringService call returns or      *)
(* raises and the event loop runs every coroutine that is ready.           *)
(***************************************************************************)
C35_Liveness ==
  /\ \A e \in 1..MaxExec :
       (engine_started /\ e \in DOMAIN workflow)
         ~> (e \in DOMAIN workflow /\ Terminal(e) /\ RunOver(e))
  /\ engine_started ~> (\A w \in Workers : pc[w] = "get")

\* every execution was run to its end, one of them with its task completed
\* and one through the except clause of its worker, whose publication of
\* workflow_failed raised, and every worker is back at its queue.get()
C35_Witness ==
  /\ engine_started
  /\ Len(workflow) = MaxExec
  /\ \A e \in DOMAIN workflow : Terminal(e) /\ RunOver(e)
  /\ \E e \in DOMAIN workflow :
       workflow[e].status = COMPLETED /\ Len(workflow[e].results) >= 1
  /\ \E e \in DOMAIN workflow :
       /\ workflow[e].error = NoAgentsError
       /\ EventCount(e, "workflow_failed") = 0
  /\ \A w \in Workers : pc[w] = "get"

(***************************************************************************)
(* C36 (metrics push).  An execution whose run is over and whose task loop *)
(* finished, every task_completed event published and either all tasks     *)
(* succeeded or the last one FAILED, has its metrics recorded exactly      *)
(* once, with the status of the record.  The code breaks it: the metrics   *)
(* are pushed after the publication of workflow_completed and only when    *)
(* that publication did not raise.                                         *)
(***************************************************************************)
LoopFinished(e) ==
  LET rs == ReturnsOf(e)
  IN  /\ CreatedRoles(workflow[e].crew_agents) # << >>
      /\ Len(rs) >= 1
      /\ EventCount(e, "task_completed") = Len(rs)
      /\ AllSucceeded(e) \/ rs[Len(rs)].status = FAILED

C36_MetricsOnce ==
  \A e \in DOMAIN workflow :
    (RunOver(e) /\ LoopFinished(e)) =>
      /\ Len(metrics[e]) = 1
      /\ metrics[e][1].status = workflow[e].status

(***************************************************************************)
(* C37 (timestamps).  In every state an execution that is COMPLETED or     *)
(* FAILED has started_at and completed_at set, started_at not after        *)
(* completed_at; an execution that is PENDING has neither; and an          *)
(* execution that is RUNNING has started_at set and completed_at unset.    *)
(***************************************************************************)
C37_Timestamps ==
  \A e \in DOMAIN workflow :
    LET r == workflow[e]
    IN  /\ r.status \in {COMPLETED, FAILED} =>
             /\ r.started_at # 0
             /\ r.completed_at # 0
             /\ r.started_at <= r.completed_at
        /\ r.status = PENDING => r.started_at = 0 /\ r.completed_at = 0
        /\ r.status = RUNNING => r.started_at # 0 /\ r.completed_at = 0

\* an execution has completed later than it was started, and another has
\* failed or is running
C37_Witness ==
  /\ \E e \in DOMAIN workflow :
       workflow[e].status = COMPLETED /\ workflow[e].started_at < workflow[e].completed_at
  /\ \E e \in DOMAIN workflow : workflow[e].status = FAILED \/ workflow[e].status = RUNNING

(***************************************************************************)
(* C38 (empty task list).  An execution of no task and of a crew with an   *)
(* agent that was not cancelled ends, when its run is over, COMPLETED with *)
(* progress 1.0, no TaskResult, no task event and exactly one              *)
(* workflow_completed event.  The code breaks it where the publication of  *)
(* workflow_started or of workflow_completed raises; the progress is       *)
(* never computed for an empty list.                                       *)
(***************************************************************************)
C38_EmptyTaskList ==
  \A e \in DOMAIN workflow :
    (/\ RunOver(e)
     /\ workflow[e].tasks = << >>
     /\ CreatedRoles(workflow[e].crew_agents) # << >>
     /\ workflow[e].cancelled_at = 0) =>
      /\ workflow[e].status = COMPLETED
      /\ ProgressIsOne(workflow[e].progress)
      /\ workflow[e].results = << >>
      /\ TaskEvents(e) = << >>
      /\ EventCount(e, "workflow_completed") = 1

====
